---- MODULE Spec2Model ----
(***************************************************************************)
(* PuzzleFinder (src/src/PuzzleFinder.cpp) and CachedPuzzleSolver          *)
(* (src/unnamed/part_002) as state machines.                               *)
(*                                                                         *)
(* Numbers.  Angles are fixed-point integers in units of pi/PI radians;    *)
(* rho and the votes are integers.  The input frames and target sizes are  *)
(* chosen so that x / width * pi and (y - h/2) * maxR / (h/2) are exact in *)
(* these units; the mean of a cluster's thetas is rounded down to the      *)
(* unit, where the code rounds to float precision.                         *)
(***************************************************************************)
EXTENDS Integers, Sequences, FiniteSets, TLC

VARIABLES
  \* PuzzleFinder's members (the reused scratch buffers)
  lines, lineClusters, possiblePuzzleLineClusters, puzzleLines,
  \* the last Find call: its arguments, the caller's point list, the return value
  targetWidth, targetHeight, houghTransformFrame, puzzlePoints, found,
  \* CachedPuzzleSolver's members
  solvedPuzzles, lastUsedSolution,
  \* the last CachedPuzzleSolver call: which, its arguments and outcome
  call, digits, solution, returned, oobRead, crashed,
  \* history: the solution the most recent successful Solve wrote (<<>> if none),
  \* and for each puzzle the solution its first successful Solve wrote
  lastSolved, firstSolutions,
  \* position of a single-stage run: "input" before the stage ran, "done" after
  pc

finderVars == <<lines, lineClusters, possiblePuzzleLineClusters, puzzleLines>>
findCallVars == <<targetWidth, targetHeight, houghTransformFrame, puzzlePoints, found>>
cacheVars == <<solvedPuzzles, lastUsedSolution>>
cacheCallVars == <<call, digits, solution, returned, oobRead, crashed, lastSolved, firstSolutions>>
vars == <<finderVars, findCallVars, cacheVars, cacheCallVars, pc>>

-----------------------------------------------------------------------------
(* Arithmetic helpers *)

Abs(a) == IF a < 0 THEN -a ELSE a

MinOf(a, b) == IF a < b THEN a ELSE b

MaxOf(a, b) == IF a < b THEN b ELSE a

SetMax(S) == CHOOSE m \in S : \A n \in S : n <= m

\* std::lround of num/den for num >= 0, den > 0: halves round away from zero.
LRound(num, den) == (2 * num + den) \div (2 * den)

\* hypotf of two unsigned ints, rounded down to an integer (exact for the
\* Pythagorean target sizes the model uses).
Hypot(a, b) == CHOOSE r \in 0..(a + b) : r * r <= a * a + b * b /\ a * a + b * b < (r + 1) * (r + 1)

\* M_PI in angle units: pi/12 (DELTA_THETA) and pi/2 are whole numbers of units.
PI == 720

DELTA_THETA == PI \div 12

M_PI_2 == PI \div 2

\* The neighbourhood divisor 96.0f.
RadiusDivisor == 96

\* DELTA_THRESHOLD, in pixels.
DELTA_THRESHOLD == 15

\* The largest cluster the subset scan accepts.
MaxSubsetBits == 32

-----------------------------------------------------------------------------
(* Geometry.h, which is not among the sources: the circular distance of    *)
(* two angles, in [0, pi]; the arithmetic mean of a cluster's thetas; the   *)
(* intersection of two lines, kept symbolic as the pair of lines it is the  *)
(* intersection of.                                                         *)

DifferenceTheta(theta0, theta1) ==
  LET d == Abs(theta0 - theta1) % (2 * PI)
  IN IF d > PI THEN 2 * PI - d ELSE d

RECURSIVE SumTheta(_)
SumTheta(cluster) ==
  IF cluster = <<>> THEN 0 ELSE Head(cluster).theta + SumTheta(Tail(cluster))

MeanTheta(cluster) == SumTheta(cluster) \div Len(cluster)

IntersectLines(line1, line2) == [of1 |-> line1, of2 |-> line2]

\* cos, up to a strictly increasing map: cos is even, 2pi-periodic and strictly
\* decreasing on [0, pi], so cos a > cos b iff a is circularly nearer to 0.
\* The code only compares two cosines (line 262).
Cos(theta) == PI - DifferenceTheta(theta, 0)

-----------------------------------------------------------------------------
(* FindLines: the peak extractor *)

\* *reinterpret_cast<const unsigned short*>(&data[index]) on a little-endian host.
ReadUShort(frame, index) == frame.data[index + 1] + 256 * frame.data[index + 2]

\* The lambda ExtractValue; a negative int cast to unsigned is >= width/height.
ExtractValue(frame, x, y) ==
  IF x < 0 \/ y < 0 \/ x >= frame.width \/ y >= frame.height
  THEN 0
  ELSE ReadUShort(frame, (y * frame.width + x) * 3)

MaximumValue(frame) ==
  SetMax({0} \cup {ReadUShort(frame, x * 3) : x \in 0..(frame.width * frame.height - 1)})

Radius(frame) == MinOf(1, LRound(MaxOf(frame.width, frame.height), RadiusDivisor))

IsPeak(frame, radius, x, y) ==
  LET value == ExtractValue(frame, x, y)
  IN \A ny \in (-radius)..radius : \A nx \in (-radius)..radius :
       (nx = 0 /\ ny = 0) \/ ~(value < ExtractValue(frame, x + nx, y + ny))

\* Lines 90-93: the theta and rho of a peak pixel before the sign normalisation
\* (maxR is hypotf(targetWidth, targetHeight), rMultiplier is height / 2).
RawLine(maxR, frame, x, y) ==
  [theta |-> (x * PI) \div frame.width,
   rho |-> ((2 * y - frame.height) * maxR) \div frame.height]

\* The same line with the sign normalisation left out.
NotNormalizedLine(maxR, frame, x, y) == RawLine(maxR, frame, x, y)

\* Lines 96-100: rho made positive.
NormalizedLine(maxR, frame, x, y) ==
  LET raw == RawLine(maxR, frame, x, y)
  IN IF raw.rho < 0
     THEN [theta |-> (raw.theta + PI) % (2 * PI), rho |-> -raw.rho]
     ELSE raw

\* The pixels in scan order (row-major) that pass the threshold and the window,
\* as 1 + y * width + x.
PeakPixels(frame, minimumValue) ==
  LET radius == Radius(frame)
      Keep(i) == LET x == (i - 1) % frame.width
                     y == (i - 1) \div frame.width
                 IN /\ ~(ExtractValue(frame, x, y) < minimumValue)
                    /\ IsPeak(frame, radius, x, y)
  IN SelectSeq([i \in 1..(frame.width * frame.height) |-> i], Keep)

LinesOfPeaks(maxR, frame, peaks) ==
  [k \in 1..Len(peaks) |->
     NormalizedLine(maxR, frame, (peaks[k] - 1) % frame.width,
                    (peaks[k] - 1) \div frame.width)]

\* The new contents of `lines`; prev is what the buffer held before the call.
FindLines(tw, th, frame, prev) ==
  LET cleared == SubSeq(prev, 1, 0)
      minimumValue == (MaximumValue(frame) * 3) \div 4
  IN IF minimumValue = 0
     THEN cleared
     ELSE cleared \o LinesOfPeaks(Hypot(tw, th), frame, PeakPixels(frame, minimumValue))

-----------------------------------------------------------------------------
(* ClusterizeLinesByTheta: the theta clusterer *)

\* The angle-flipped twin of lines 135 and 138.
Twin(line) == [theta |-> (line.theta + PI) % (2 * PI), rho |-> -line.rho]

\* Whether the cluster takes the line as it is (line 127), or as its twin (line 136).
TakesLine(cluster, line) == DifferenceTheta(line.theta, MeanTheta(cluster)) < DELTA_THETA

TakesTwin(cluster, line) == DifferenceTheta(Twin(line).theta, MeanTheta(cluster)) < DELTA_THETA

\* The first cluster, in creation order, that takes the line or its twin; 0 if none.
RECURSIVE FindCluster(_, _, _)
FindCluster(clusters, line, i) ==
  IF i > Len(clusters) THEN 0
  ELSE IF TakesLine(clusters[i], line) \/ TakesTwin(clusters[i], line) THEN i
  ELSE FindCluster(clusters, line, i + 1)

\* The iteration with `found` not set when a cluster takes the twin: the line
\* then also starts a cluster of its own.
AddLineForgettingFound(clusters, line) ==
  LET i == FindCluster(clusters, line, 1)
  IN IF i = 0 THEN Append(clusters, <<line>>)
     ELSE IF TakesLine(clusters[i], line)
          THEN [clusters EXCEPT ![i] = Append(@, line)]
          ELSE Append([clusters EXCEPT ![i] = Append(@, Twin(line))], <<line>>)

\* One iteration of the loop over the lines (lines 119-146).
AddLine(clusters, line) ==
  LET i == FindCluster(clusters, line, 1)
  IN IF i = 0 THEN Append(clusters, <<line>>)
     ELSE IF TakesLine(clusters[i], line)
          THEN [clusters EXCEPT ![i] = Append(@, line)]
          ELSE [clusters EXCEPT ![i] = Append(@, Twin(line))]

RECURSIVE ClusterizeFrom(_, _, _)
ClusterizeFrom(input, k, clusters) ==
  IF k > Len(input) THEN clusters
  ELSE ClusterizeFrom(input, k + 1, AddLine(clusters, input[k]))

\* The new contents of `lineClusters`; prev is what the buffer held before.
ClusterizeLinesByTheta(input, prev) == ClusterizeFrom(input, 1, SubSeq(prev, 1, 0))

-----------------------------------------------------------------------------
(* FindPossiblePuzzleLines: the even-spacing searcher *)

\* std::sort by fabsf(rho): libstdc++ sorts fewer than 17 elements by insertion,
\* which keeps equal keys in their order.
RECURSIVE InsertByAbsRho(_, _)
InsertByAbsRho(sorted, line) ==
  IF sorted = <<>> THEN <<line>>
  ELSE IF Abs(line.rho) < Abs(Head(sorted).rho) THEN <<line>> \o sorted
  ELSE <<Head(sorted)>> \o InsertByAbsRho(Tail(sorted), line)

RECURSIVE SortByAbsRho(_)
SortByAbsRho(cluster) ==
  IF cluster = <<>> THEN <<>>
  ELSE InsertByAbsRho(SortByAbsRho(SubSeq(cluster, 1, Len(cluster) - 1)),
                      cluster[Len(cluster)])

\* __builtin_popcount
RECURSIVE PopCount(_)
PopCount(x) == IF x = 0 THEN 0 ELSE (x % 2) + PopCount(x \div 2)

RECURSIVE BitIndexesFrom(_, _)
BitIndexesFrom(value, x) ==
  IF value = 0 THEN <<>>
  ELSE (IF value % 2 = 1 THEN <<x>> ELSE <<>>) \o BitIndexesFrom(value \div 2, x + 1)

\* The lambda GetSetBitIndexes: the first 4 set bits, lowest first (0-based).
GetSetBitIndexes(value) == SubSeq(BitIndexesFrom(value, 0), 1, 4)

\* The spacing test with the last gap left unchecked.
EvenlySpacedFirstTwoGaps(line0, line1, line2, line3) ==
  LET range == line3.rho - line0.rho
  IN /\ Abs(3 * (line1.rho - line0.rho) - range) < 3 * DELTA_THRESHOLD
     /\ Abs(3 * (line2.rho - line1.rho) - range) < 3 * DELTA_THRESHOLD

\* Lines 220-227: fabsf(delta - range / 3) < 15 for the three gaps, times 3.
EvenlySpaced(line0, line1, line2, line3) ==
  LET range == line3.rho - line0.rho
  IN /\ Abs(3 * (line1.rho - line0.rho) - range) < 3 * DELTA_THRESHOLD
     /\ Abs(3 * (line2.rho - line1.rho) - range) < 3 * DELTA_THRESHOLD
     /\ Abs(3 * (line3.rho - line2.rho) - range) < 3 * DELTA_THRESHOLD

\* The skip with `<=`: a combination as wide as the widest is passed over.
SkipsRangeOrEqual(range, largest) == range <= largest

\* Whether a candidate range is skipped against the largest so far (line 217).
SkipsRange(range, largest) == range < largest

\* The x of the scan that pass `count == 4` (lines 198-206), in scan order.
FourBitSubsets(finalSubset) ==
  SelectSeq([x \in 1..finalSubset |-> x], LAMBDA x : PopCount(x) = 4)

\* The loop over x from its k-th passing value on (lines 208-231), with the
\* two variables largestEvenlySpacedLinesRange and largestEvenlySpacedLines.
RECURSIVE ScanSubsets(_, _, _, _, _)
ScanSubsets(cluster, subsets, k, largestRange, largestLines) ==
  IF k > Len(subsets) THEN largestLines
  ELSE LET indexes == GetSetBitIndexes(subsets[k])
           line0 == cluster[indexes[1] + 1]
           line1 == cluster[indexes[2] + 1]
           line2 == cluster[indexes[3] + 1]
           line3 == cluster[indexes[4] + 1]
           range == line3.rho - line0.rho
       IN IF SkipsRange(range, largestRange)
          THEN ScanSubsets(cluster, subsets, k + 1, largestRange, largestLines)
          ELSE IF EvenlySpaced(line0, line1, line2, line3)
               THEN ScanSubsets(cluster, subsets, k + 1, range, <<line0, line1, line2, line3>>)
               ELSE ScanSubsets(cluster, subsets, k + 1, largestRange, largestLines)

\* The body of the loop over the sorted clusters (lines 190-235): no axis or one.
AxisOfCluster(cluster) ==
  IF Len(cluster) < 4 THEN <<>>
  ELSE IF Len(cluster) > MaxSubsetBits THEN <<>>
  ELSE LET largest == ScanSubsets(cluster, FourBitSubsets(15 * 2 ^ (Len(cluster) - 4)), 1,
                                  0, <<>>)
       IN IF largest # <<>> THEN <<largest>> ELSE <<>>

RECURSIVE AxesFrom(_, _)
AxesFrom(clusters, i) ==
  IF i > Len(clusters) THEN <<>>
  ELSE AxisOfCluster(clusters[i]) \o AxesFrom(clusters, i + 1)

\* The clusters as the function leaves them (sorted in place) and the new
\* contents of `possiblePuzzleLineClusters`; prev is what that buffer held.
FindPossiblePuzzleLines(clusters, prev) ==
  LET sorted == [i \in 1..Len(clusters) |-> SortByAbsRho(clusters[i])]
  IN [clusters |-> sorted, axes |-> SubSeq(prev, 1, 0) \o AxesFrom(sorted, 1)]

-----------------------------------------------------------------------------
(* FindPuzzles: the puzzle pairer *)

PairAccepted(theta0, theta1) ==
  Abs(M_PI_2 - DifferenceTheta(theta0, theta1)) < DELTA_THETA

\* The pair kept in the order the axes were found.
OrderedPairAsFound(lines0, lines1) == <<lines0, lines1>>

\* Lines 262-265: the axis with the larger cosine first.
OrderedPair(lines0, lines1) ==
  IF Cos(lines0[1].theta) > Cos(lines1[1].theta)
  THEN <<lines0, lines1>>
  ELSE <<lines1, lines0>>

\* The pairs (y, x), y < x, in the order of the two loops (1-based).
IndexPairs(n) ==
  SelectSeq([k \in 1..(n * n) |-> <<((k - 1) \div n) + 1, ((k - 1) % n) + 1>>],
            LAMBDA p : p[1] < p[2])

\* The pairer returning on fewer than two axes before it clears the buffer.
FindPuzzlesReturnBeforeClear(axes, prev) ==
  LET accepted == SelectSeq(IndexPairs(Len(axes)),
                            LAMBDA p : PairAccepted(axes[p[1]][1].theta, axes[p[2]][1].theta))
  IN IF Len(axes) < 2 THEN prev
     ELSE [k \in 1..Len(accepted) |->
             OrderedPair(axes[accepted[k][1]], axes[accepted[k][2]])]

\* The new contents of `puzzleLines`; prev is what the buffer held before.
FindPuzzles(axes, prev) ==
  LET cleared == SubSeq(prev, 1, 0)
      accepted == SelectSeq(IndexPairs(Len(axes)),
                            LAMBDA p : PairAccepted(axes[p[1]][1].theta, axes[p[2]][1].theta))
  IN IF Len(axes) < 2 THEN cleared
     ELSE cleared \o [k \in 1..Len(accepted) |->
                        OrderedPair(axes[accepted[k][1]], axes[accepted[k][2]])]

-----------------------------------------------------------------------------
(* PuzzleFinder::Find *)

\* The corners appended to a list that is not cleared first.
CornersKeepingOld(puzzle, points) ==
  points \o
    [k \in 1..4 |-> IntersectLines(puzzle[1][3 * ((k - 1) % 2) + 1],
                                   puzzle[2][3 * ((k - 1) \div 2) + 1])]

\* Lines 296-306: the caller's list cleared, then the four outer intersections.
Corners(puzzle, points) ==
  SubSeq(points, 1, 0) \o
    [k \in 1..4 |-> IntersectLines(puzzle[1][3 * ((k - 1) % 2) + 1],
                                   puzzle[2][3 * ((k - 1) \div 2) + 1])]

\* buf: the four scratch buffers before the call; points: the caller's list.
FindResult(tw, th, frame, buf, points) ==
  LET newLines == FindLines(tw, th, frame, buf[1])
      clustered == ClusterizeLinesByTheta(newLines, buf[2])
      searched == FindPossiblePuzzleLines(clustered, buf[3])
      puzzles == FindPuzzles(searched.axes, buf[4])
  IN [lines |-> newLines,
      lineClusters |-> searched.clusters,
      possiblePuzzleLineClusters |-> searched.axes,
      puzzleLines |-> puzzles,
      found |-> puzzles # <<>>,
      puzzlePoints |-> IF puzzles = <<>> THEN points ELSE Corners(puzzles[1], points)]

-----------------------------------------------------------------------------
(* The accumulator images and target sizes Find is called with *)

Column(x, rows, vote) == {<<x, y, vote>> : y \in rows}

VoteAt(pts, x, y) ==
  IF \E p \in pts : p[1] = x /\ p[2] = y
  THEN (CHOOSE p \in pts : p[1] = x /\ p[2] = y)[3]
  ELSE 0

\* A w x h image, 3 bytes a pixel: the vote's low byte, its high byte, and a
\* third byte nothing reads.
FrameOf(w, h, pts) ==
  [width |-> w, height |-> h,
   data |-> [i \in 1..(w * h * 3) |->
               LET vote == VoteAt(pts, ((i - 1) \div 3) % w, ((i - 1) \div 3) \div w)
               IN CASE (i - 1) % 3 = 0 -> vote % 256
                    [] (i - 1) % 3 = 1 -> vote \div 256
                    [] OTHER -> 170]]

\* Width and height of the planted-grid images: theta = 30 x, and with the
\* target 180 x 240 (maxR = 300), rho = 50 (y - 6).
GridWidth == 24

GridHeight == 12

\* Width of the wide images, whose window radius is 1.
WideWidth == 48

Grid(pts) == FrameOf(GridWidth, GridHeight, pts)

EvenRows == {6, 7, 8, 9}

Horizontal == Column(0, EvenRows, 300)

Vertical == Column(12, EvenRows, 300)

\* Frames on which Find succeeds.
GoodFrames ==
  { Grid(Horizontal \cup Vertical),
    Grid(Column(0, {7, 8, 9, 10}, 300) \cup Vertical),
    Grid(Column(0, {1, 2, 3, 4}, 300) \cup Vertical),
    Grid(Column(0, {6, 7}, 300) \cup Column(1, {8, 9}, 300) \cup Vertical),
    Grid(Horizontal \cup {<<1, 6, 250>>} \cup Vertical),
    Grid(Horizontal \cup Column(11, EvenRows, 300) \cup Column(13, EvenRows, 300)) }

\* Frames on which it fails: no signal, too few axes, no orthogonal pair.
BadFrames ==
  { Grid({}),
    Grid({<<3, 3, 1>>}),
    Grid(Horizontal),
    Grid(Vertical),
    Grid(Column(0, {6, 7, 8, 11}, 300) \cup Vertical),
    Grid(Horizontal \cup Column(12, {6, 8, 10}, 300)),
    Grid(Horizontal \cup Column(6, EvenRows, 300)),
    Grid(Horizontal \cup Column(12, EvenRows, 200)),
    Grid(Column(0, {2, 6, 7, 8, 9}, 300) \cup Vertical),
    Grid(Column(0, {6, 7, 8, 9, 11}, 260) \cup Column(12, {0, 6, 7, 8}, 300)),
    Grid({<<0, 6, 300>>, <<1, 6, 250>>}),
    FrameOf(WideWidth, 2, {<<10, 1, 300>>, <<11, 1, 300>>, <<20, 0, 299>>, <<21, 1, 300>>}),
    FrameOf(WideWidth, 2, {<<0, 0, 4>>, <<47, 1, 3>>, <<5, 1, 2>>}),
    FrameOf(0, 0, {}) }

FindInputs ==
  {<<180, 240, f>> : f \in GoodFrames \cup BadFrames}
    \cup { <<90, 120, Grid(Horizontal \cup Vertical)>>,
           <<90, 120, Grid(Column(0, {1, 2, 3, 4}, 300) \cup Vertical)>>,
           <<90, 120, Grid(Horizontal \cup Column(6, EvenRows, 300))>> }

-----------------------------------------------------------------------------
(* The PuzzleFinder instance: Find called any number of times *)

EmptyFrame == FrameOf(0, 0, {})

EmptyMap == [p \in {} |-> <<>>]

\* An iterator into solvedPuzzles: <<key>> for the entry of that key, and
\* MapEnd for solvedPuzzles.end().
MapEnd == <<>>

IdleCache ==
  /\ solvedPuzzles = EmptyMap
  /\ lastSolved = <<>>
  /\ firstSolutions = EmptyMap
  /\ lastUsedSolution = MapEnd
  /\ call = "none"
  /\ digits = <<>>
  /\ solution = <<>>
  /\ returned = FALSE
  /\ oobRead = FALSE
  /\ crashed = FALSE

IdleFindCall ==
  /\ targetWidth = 0
  /\ targetHeight = 0
  /\ houghTransformFrame = EmptyFrame
  /\ puzzlePoints = <<>>
  /\ found = FALSE

Init ==
  /\ lines = <<>>
  /\ lineClusters = <<>>
  /\ possiblePuzzleLineClusters = <<>>
  /\ puzzleLines = <<>>
  /\ IdleFindCall
  /\ IdleCache
  /\ pc = "constructed"

\* bool PuzzleFinder::Find(targetWidth, targetHeight, houghTransformFrame, puzzlePoints)
Find(tw, th, frame) ==
  \E r \in {FindResult(tw, th, frame, finderVars, puzzlePoints)} :
     /\ lines' = r.lines
     /\ lineClusters' = r.lineClusters
     /\ possiblePuzzleLineClusters' = r.possiblePuzzleLineClusters
     /\ puzzleLines' = r.puzzleLines
     /\ puzzlePoints' = r.puzzlePoints
     /\ found' = r.found
     /\ targetWidth' = tw
     /\ targetHeight' = th
     /\ houghTransformFrame' = frame
     /\ pc' = "called"
     /\ UNCHANGED <<cacheVars, cacheCallVars>>

Next == \E in \in FindInputs : Find(in[1], in[2], in[3])

Spec == Init /\ [][Next]_vars

-----------------------------------------------------------------------------
(* Single stages, each run once on an input drawn from a bounded set *)

Line(theta, rho) == [theta |-> theta, rho |-> rho]

\* ClusterizeLinesByTheta on every sequence of at most MaxLines lines of a pool
\* of lines as FindLines stores them, into an empty or a used buffer.
MaxLines == 4

ClusterLinePool ==
  { Line(0, 10), Line(50, 40), Line(100, 10), Line(700, 40),
    Line(760, 10), Line(1400, 40), Line(360, 10) }

SeqsUpTo(S, n) == UNION {[1..k -> S] : k \in 0..n}

UsedClusters == << <<Line(0, 10), Line(30, 70)>>, <<Line(360, 5)>> >>

InitCluster ==
  /\ lines \in SeqsUpTo(ClusterLinePool, MaxLines)
  /\ lineClusters \in {<<>>, UsedClusters}
  /\ possiblePuzzleLineClusters = <<>>
  /\ puzzleLines = <<>>
  /\ IdleFindCall
  /\ IdleCache
  /\ pc = "input"

Clusterize ==
  /\ pc = "input"
  /\ lineClusters' = ClusterizeLinesByTheta(lines, lineClusters)
  /\ pc' = "done"
  /\ UNCHANGED <<lines, possiblePuzzleLineClusters, puzzleLines,
                 findCallVars, cacheVars, cacheCallVars>>

NextCluster == Clusterize

SpecCluster == InitCluster /\ [][NextCluster]_vars

\* FindPossiblePuzzleLines on one or two clusters: every cluster of at most
\* MaxClusterLen lines of a pool, in pool order or reversed, and a cluster of
\* MaxSubsetBits + 1 lines.
MaxClusterLen == 6

AxisLinePool ==
  << Line(0, 90), Line(0, 0), Line(0, 60), Line(30, 0),
     Line(0, 28), Line(0, 30), Line(0, -60), Line(0, 200),
     Line(0, -30), Line(0, -90) >>

RECURSIVE PickFrom(_, _, _)
PickFrom(pool, chosen, i) ==
  IF i > Len(pool) THEN <<>>
  ELSE (IF i \in chosen THEN <<pool[i]>> ELSE <<>>) \o PickFrom(pool, chosen, i + 1)

Reversed(seq) == [k \in 1..Len(seq) |-> seq[Len(seq) + 1 - k]]

PoolClusters ==
  LET picks == {c \in SUBSET (1..Len(AxisLinePool)) :
                  Cardinality(c) >= 3 /\ Cardinality(c) <= MaxClusterLen}
  IN {PickFrom(AxisLinePool, c, 1) : c \in picks}
       \cup {Reversed(PickFrom(AxisLinePool, c, 1)) : c \in picks}

BigCluster == [k \in 1..(MaxSubsetBits + 1) |-> Line(0, 30 * k)]

SideClusters ==
  { <<Line(360, 0), Line(360, 50), Line(360, 100), Line(360, 150)>>,
    <<Line(360, 0), Line(360, 50), Line(360, 100), Line(360, 250)>>,
    <<Line(360, 0), Line(360, 60), Line(360, 120), Line(360, 150)>>,
    <<Line(360, 0), Line(360, 50), Line(360, 100)>>,
    BigCluster }

AxisInputs ==
  {<<c>> : c \in PoolClusters \cup SideClusters}
    \cup {<<c, d>> : c \in SideClusters, d \in SideClusters}

InitAxis ==
  /\ lines = <<>>
  /\ lineClusters \in AxisInputs
  /\ possiblePuzzleLineClusters \in {<<>>, <<BigCluster>>}
  /\ puzzleLines = <<>>
  /\ IdleFindCall
  /\ IdleCache
  /\ pc = "input"

Search ==
  /\ pc = "input"
  /\ \E r \in {FindPossiblePuzzleLines(lineClusters, possiblePuzzleLineClusters)} :
       /\ lineClusters' = r.clusters
       /\ possiblePuzzleLineClusters' = r.axes
  /\ pc' = "done"
  /\ UNCHANGED <<lines, puzzleLines, findCallVars, cacheVars, cacheCallVars>>

NextAxis == Search

SpecAxis == InitAxis /\ [][NextAxis]_vars

\* FindPuzzles on every sequence of at most MaxAxes candidate axes of a pool.
MaxAxes == 3

AxisOfTheta(theta) == <<Line(theta, 0), Line(theta, 50), Line(theta, 100), Line(theta, 150)>>

AxisPool ==
  {AxisOfTheta(theta) : theta \in {0, 60, 300, 360, 420, 720, 1080, 1380}}
    \cup {<<Line(30, 0), Line(0, 50), Line(0, 100), Line(0, 150)>>}

InitPairs ==
  /\ lines = <<>>
  /\ lineClusters = <<>>
  /\ possiblePuzzleLineClusters \in SeqsUpTo(AxisPool, MaxAxes)
  /\ puzzleLines \in {<<>>, << <<AxisOfTheta(0), AxisOfTheta(360)>> >>}
  /\ IdleFindCall
  /\ IdleCache
  /\ pc = "input"

Pair ==
  /\ pc = "input"
  /\ puzzleLines' = FindPuzzles(possiblePuzzleLineClusters, puzzleLines)
  /\ pc' = "done"
  /\ UNCHANGED <<lines, lineClusters, possiblePuzzleLineClusters,
                 findCallVars, cacheVars, cacheCallVars>>

NextPairs == Pair

SpecPairs == InitPairs /\ [][NextPairs]_vars

-----------------------------------------------------------------------------
(* Game (src/unnamed/part_001, part_003): 9 x 9 cells, row-major *)

WIDTH == 9

HEIGHT == 9

MAX_VALUE == 9

EMPTY_VALUE == 0

\* Game::Game and Game::Clear
NewGame == [i \in 1..(WIDTH * HEIGHT) |-> EMPTY_VALUE]

\* Game::Set: out-of-range coordinates and values leave the grid as it is.
GameSet(game, x, y, value) ==
  IF x >= WIDTH \/ y >= HEIGHT \/ value > MAX_VALUE
  THEN game
  ELSE [game EXCEPT ![y * WIDTH + x + 1] = value]

\* Game::Get
GameGet(game, x, y) ==
  IF x >= WIDTH \/ y >= HEIGHT THEN EMPTY_VALUE ELSE game[y * WIDTH + x + 1]

-----------------------------------------------------------------------------
(* Solve.h, which is not among the sources: Solvable as the absence of a    *)
(* repeated digit in a row, column or block; Solve as a backtracking search *)
(* that fills the first empty cell with the lowest digit that leads to a    *)
(* full grid, and fails when there is none.                                 *)

SameUnit(i, j) ==
  LET ri == (i - 1) \div WIDTH
      ci == (i - 1) % WIDTH
      rj == (j - 1) \div WIDTH
      cj == (j - 1) % WIDTH
  IN \/ ri = rj
     \/ ci = cj
     \/ (ri \div 3 = rj \div 3 /\ ci \div 3 = cj \div 3)

Solvable(game) ==
  \A i \in 1..Len(game) : \A j \in 1..Len(game) :
    (i < j /\ game[i] # EMPTY_VALUE /\ SameUnit(i, j)) => game[i] # game[j]

Unsolved == <<>>

RECURSIVE SolveGame(_)
RECURSIVE TryDigits(_, _, _)
SolveGame(game) ==
  IF \A i \in 1..Len(game) : game[i] # EMPTY_VALUE THEN game
  ELSE TryDigits(game, CHOOSE i \in 1..Len(game) :
                         /\ game[i] = EMPTY_VALUE
                         /\ \A j \in 1..(i - 1) : game[j] # EMPTY_VALUE, 1)

TryDigits(game, cell, digit) ==
  IF digit > MAX_VALUE THEN Unsolved
  ELSE IF \E j \in 1..Len(game) : j # cell /\ SameUnit(cell, j) /\ game[j] = digit
       THEN TryDigits(game, cell, digit + 1)
       ELSE LET solved == SolveGame([game EXCEPT ![cell] = digit])
            IN IF solved # Unsolved THEN solved ELSE TryDigits(game, cell, digit + 1)

-----------------------------------------------------------------------------
(* CachedPuzzleSolver *)

\* Reading digits[index]: past the end of the vector the read is undefined and
\* yields whatever byte `beyond` the memory holds there.
DigitAt(input, index, beyond) ==
  IF index < Len(input) THEN input[index + 1] ELSE beyond

\* DigitsToGame: Set is called once for each of the 81 cells of a fresh Game,
\* so a cell ends as the digit read for it, or empty if Set refused the digit.
DigitsToGame(input, beyond) ==
  [i \in 1..(WIDTH * HEIGHT) |->
     GameSet(NewGame, (i - 1) % 9, (i - 1) \div 9, DigitAt(input, i - 1, beyond))[i]]

\* Whether DigitsToGame reads past the end of the vector.
ReadsPastEnd(input) == \E index \in 0..80 : ~(index < Len(input))

NonZeroDigits(input) == Cardinality({i \in 1..Len(input) : input[i] > 0})

\* The checks of lines 45-59, in order.
Rejected(input, game) ==
  \/ Len(input) # 81
  \/ \E i \in 1..Len(input) : input[i] > 9
  \/ ~Solvable(game)
  \/ NonZeroDigits(input) < 21

\* solvedPuzzles.emplace(digits, solution): an existing entry is kept.
Emplace(map, key, value) ==
  [k \in DOMAIN map \cup {key} |-> IF k \in DOMAIN map THEN map[k] ELSE value]

\* The solution as lines 75-83 read it out of the solved game.
ReadOut(game) == [i \in 1..(WIDTH * HEIGHT) |-> GameGet(game, (i - 1) % 9, (i - 1) \div 9)]

\* A hit that writes the cached solution but leaves lastUsedSolution alone.
CacheHitKeepingLast(input, map, last) ==
  [returned |-> TRUE, solution |-> map[input], map |-> map, last |-> last]

\* Lines 62-68: the cached solution copied out, lastUsedSolution moved to it.
CacheHit(input, map, last) ==
  [returned |-> TRUE, solution |-> map[input], map |-> map, last |-> <<input>>]

\* What a Solve call that does not crash returns and writes.
SolveResult(input, game, map, last, out) ==
  IF Rejected(input, game)
  THEN [returned |-> FALSE, solution |-> out, map |-> map, last |-> last]
  ELSE IF input \in DOMAIN map
  THEN CacheHit(input, map, last)
  ELSE LET solved == SolveGame(game)
       IN IF solved = Unsolved
          THEN [returned |-> FALSE, solution |-> out, map |-> map, last |-> last]
          ELSE [returned |-> TRUE, solution |-> ReadOut(solved),
                map |-> Emplace(map, input, ReadOut(solved)), last |-> <<input>>]

\* The valid grid with ((r % 3) * 3 + r / 3 + c) % 9 + 1 in row r, column c.
FullGrid ==
  [i \in 1..81 |-> (((((i - 1) \div 9) % 3) * 3 + ((i - 1) \div 9) \div 3 + ((i - 1) % 9)) % 9) + 1]

Blanked(grid, cells) == [i \in 1..Len(grid) |-> IF i \in cells THEN 0 ELSE grid[i]]

Relabelled(grid) == [i \in 1..Len(grid) |-> (grid[i] % 9) + 1]

PuzzleA == Blanked(FullGrid, {1, 2, 41})

PuzzleB == Blanked(FullGrid, {5, 77})

PuzzleC == Blanked(Relabelled(FullGrid), {3, 4})

\* No digit repeats, but the first cell has no digit left.
StuckPuzzle == [Blanked(FullGrid, {1, 22, 42}) EXCEPT ![6] = 1]

SolveInputs ==
  { PuzzleA, PuzzleB, PuzzleC,
    SubSeq(PuzzleA, 1, 80),
    PuzzleA \o <<0>>,
    <<>>,
    [PuzzleA EXCEPT ![1] = 10],
    [PuzzleA EXCEPT ![1] = PuzzleA[3]],
    Blanked(FullGrid, 21..81),
    StuckPuzzle }

\* The bytes an out-of-bounds read is given in the model.
BeyondBytes == {0, 7, 200}

InitCache ==
  /\ lines = <<>>
  /\ lineClusters = <<>>
  /\ possiblePuzzleLineClusters = <<>>
  /\ puzzleLines = <<>>
  /\ IdleFindCall
  /\ IdleCache
  /\ pc = "constructed"

\* bool CachedPuzzleSolver::Solve(digits, solution), returning normally.
CachedSolve(input, beyond) ==
  /\ ~crashed
  /\ \E r \in {SolveResult(input, DigitsToGame(input, beyond), solvedPuzzles,
                           lastUsedSolution, solution)} :
       /\ returned' = r.returned
       /\ solution' = r.solution
       /\ solvedPuzzles' = r.map
       /\ lastUsedSolution' = r.last
       /\ lastSolved' = IF r.returned THEN r.solution ELSE lastSolved
       /\ firstSolutions' = IF r.returned THEN Emplace(firstSolutions, input, r.solution)
                            ELSE firstSolutions
  /\ call' = "Solve"
  /\ digits' = input
  /\ oobRead' = ReadsPastEnd(input)
  /\ crashed' = FALSE
  /\ UNCHANGED <<finderVars, findCallVars, pc>>

\* The same call when the read past the end of a short vector faults.
CachedSolveFaults(input) ==
  /\ ~crashed
  /\ ReadsPastEnd(input)
  /\ call' = "Solve"
  /\ digits' = input
  /\ oobRead' = TRUE
  /\ crashed' = TRUE
  /\ UNCHANGED <<finderVars, findCallVars, pc, cacheVars, solution, returned,
                 lastSolved, firstSolutions>>

\* bool CachedPuzzleSolver::GetLastUsedSolution(solution) const
GetLastUsedSolution ==
  /\ ~crashed
  /\ call' = "GetLastUsedSolution"
  /\ IF lastUsedSolution = MapEnd
     THEN returned' = FALSE /\ solution' = solution
     ELSE returned' = TRUE /\ solution' = solvedPuzzles[lastUsedSolution[1]]
  /\ oobRead' = FALSE
  /\ UNCHANGED <<finderVars, findCallVars, pc, cacheVars, digits, crashed,
                 lastSolved, firstSolutions>>

NextCache ==
  \/ \E input \in SolveInputs :
       \E beyond \in (IF ReadsPastEnd(input) THEN BeyondBytes ELSE {0}) :
         CachedSolve(input, beyond)
  \/ \E input \in SolveInputs : CachedSolveFaults(input)
  \/ GetLastUsedSolution

SpecCache == InitCache /\ [][NextCache]_vars

-----------------------------------------------------------------------------
(* Claims about Find, checked under Spec *)

NoBuffers == << <<>>, <<>>, <<>>, <<>> >>

AllZero(frame) ==
  \A x \in 0..(frame.width * frame.height - 1) : ReadUShort(frame, x * 3) = 0

OrthogonalPairs(axes) ==
  {p \in (1..Len(axes)) \X (1..Len(axes)) :
     /\ p[1] < p[2]
     /\ Abs(M_PI_2 - DifferenceTheta(axes[p[1]][1].theta, axes[p[2]][1].theta)) < DELTA_THETA}

\* C1: Find returns false when the accumulator is all-zero, when fewer than 2
\* candidate axes were produced, or when no pair of them is accepted as
\* orthogonal; otherwise it returns true and the point list holds exactly the
\* 4 intersections (axis2[0],axis1[0]), (axis2[0],axis1[3]), (axis2[3],axis1[0]),
\* (axis2[3],axis1[3]) of the first puzzle candidate, whatever it held before.
C1_FindContract ==
  pc = "called" =>
    /\ found = ~(\/ AllZero(houghTransformFrame)
                 \/ Len(possiblePuzzleLineClusters) < 2
                 \/ OrthogonalPairs(possiblePuzzleLineClusters) = {})
    /\ found =>
         LET axis1 == puzzleLines[1][1]
             axis2 == puzzleLines[1][2]
         IN puzzlePoints = << IntersectLines(axis1[1], axis2[1]),
                              IntersectLines(axis1[4], axis2[1]),
                              IntersectLines(axis1[1], axis2[4]),
                              IntersectLines(axis1[4], axis2[4]) >>

\* A successful call that found two puzzle candidates and used the first.
C1_Witness ==
  /\ pc = "called"
  /\ found
  /\ Len(puzzleLines) = 2
  /\ Len(puzzlePoints) = 4

\* C2: whatever calls came before on the instance, a Find call returns the
\* boolean, and on success the 4 points, that the same call returns on a freshly
\* constructed instance with an empty point list.
C2_FindIsPure ==
  pc = "called" =>
    LET fresh == FindResult(targetWidth, targetHeight, houghTransformFrame, NoBuffers, <<>>)
    IN /\ found = fresh.found
       /\ found => puzzlePoints = fresh.puzzlePoints

\* A failed call on an instance that succeeded before: the caller's list still
\* holds the earlier points, and the call got as far as clustering lines.
C2_Witness ==
  /\ pc = "called"
  /\ ~found
  /\ puzzlePoints # <<>>
  /\ lineClusters # <<>>

\* The peak pixels of the last call's frame, in scan order, as 1 + y * width + x.
LastPeaks ==
  LET minimumValue == (MaximumValue(houghTransformFrame) * 3) \div 4
  IN IF minimumValue = 0 THEN <<>> ELSE PeakPixels(houghTransformFrame, minimumValue)

\* C3 as stated: every stored line has theta in [0, pi) and rho >= 0.
C3_ThetaInHalfTurn ==
  pc = "called" =>
    \A k \in 1..Len(lines) :
      lines[k].rho >= 0 /\ 0 <= lines[k].theta /\ lines[k].theta < PI

\* C3, amended: every stored line has rho >= 0 and theta in [0, 2 pi); a line
\* whose raw rho was negative is stored with theta in [pi, 2 pi), every other
\* line with theta in [0, pi).
C3_ThetaInFullTurn ==
  pc = "called" =>
    /\ Len(lines) = Len(LastPeaks)
    /\ \A k \in 1..Len(lines) :
         LET frame == houghTransformFrame
             raw == RawLine(Hypot(targetWidth, targetHeight), frame,
                            (LastPeaks[k] - 1) % frame.width,
                            (LastPeaks[k] - 1) \div frame.width)
         IN /\ lines[k].rho >= 0
            /\ raw.rho < 0 => PI <= lines[k].theta /\ lines[k].theta < 2 * PI
            /\ raw.rho >= 0 => 0 <= lines[k].theta /\ lines[k].theta < PI

\* A stored line that was sign-normalized.
C3_Witness ==
  /\ pc = "called"
  /\ \E k \in 1..Len(lines) : lines[k].theta >= PI /\ lines[k].rho > 0

\* The window radius and the peaks as the claim C4 states them.
StatedRadius(frame) == MaxOf(1, LRound(MaxOf(frame.width, frame.height), RadiusDivisor))

StatedPeaks(frame) ==
  LET r == StatedRadius(frame)
  IN {p \in (0..(frame.width - 1)) \X (0..(frame.height - 1)) :
        LET vote == ExtractValue(frame, p[1], p[2])
        IN /\ 4 * vote >= 3 * MaximumValue(frame)
           /\ \A ny \in (-r)..r : \A nx \in (-r)..r :
                (nx = 0 /\ ny = 0) \/ ExtractValue(frame, p[1] + nx, p[2] + ny) < vote}

\* C4: with V_max > 0, the pixels FindLines turns into lines are exactly those
\* whose vote is >= 0.75 V_max and strictly above every other pixel within the
\* square of radius max(1, round(max(width, height) / 96)).
C4_PeaksAsStated ==
  (pc = "called" /\ MaximumValue(houghTransformFrame) > 0) =>
    {<<(LastPeaks[k] - 1) % houghTransformFrame.width,
       (LastPeaks[k] - 1) \div houghTransformFrame.width>> : k \in 1..Len(LastPeaks)}
      = StatedPeaks(houghTransformFrame)

-----------------------------------------------------------------------------
(* Claims about ClusterizeLinesByTheta, checked under SpecCluster *)

\* Of a line and its twin, the one with theta in [0, pi): a cluster member m is
\* an input line l or l's twin exactly when Canonical(m) = Canonical(l).
Canonical(line) == IF line.theta < PI THEN line ELSE Twin(line)

Members == {p \in (1..Len(lineClusters)) \X (1..MaxLines) : p[2] <= Len(lineClusters[p[1]])}

\* C5: after ClusterizeLinesByTheta each input line contributes exactly one
\* member, itself or its twin, to exactly one cluster: the members are as many as
\* the input lines, no cluster is empty, and each line or twin occurs among the
\* members as often as among the input lines.
C5_EachLineInOneCluster ==
  pc = "done" =>
    /\ Cardinality(Members) = Len(lines)
    /\ \A i \in 1..Len(lineClusters) :
         /\ lineClusters[i] # <<>>
         /\ Len(lineClusters[i]) <= MaxLines
    /\ \A c \in {Canonical(lines[k]) : k \in 1..Len(lines)}
               \cup {Canonical(lineClusters[p[1]][p[2]]) : p \in Members} :
         Cardinality({k \in 1..Len(lines) : Canonical(lines[k]) = c})
           = Cardinality({p \in Members : Canonical(lineClusters[p[1]][p[2]]) = c})

\* A clustering that placed a twin and made more than one cluster.
C5_Witness ==
  /\ pc = "done"
  /\ Len(lineClusters) >= 2
  /\ \E p \in Members : lineClusters[p[1]][p[2]].rho < 0

-----------------------------------------------------------------------------
(* Claims about FindPossiblePuzzleLines, checked under SpecAxis *)

\* The ways to match the emitted axes, in order, to the clusters they came from.
AxisSources ==
  {f \in [1..Len(possiblePuzzleLineClusters) -> 1..Len(lineClusters)] :
     \A k \in DOMAIN f : \A m \in DOMAIN f : k < m => f[k] < f[m]}

\* The 4-element combinations of a cluster's indices, lowest index first.
Combinations(cluster) ==
  {q \in (1..Len(cluster)) \X (1..Len(cluster)) \X (1..Len(cluster)) \X (1..Len(cluster)) :
     q[1] < q[2] /\ q[2] < q[3] /\ q[3] < q[4]}

LinesOf(cluster, q) == <<cluster[q[1]], cluster[q[2]], cluster[q[3]], cluster[q[4]]>>

RangeOf(four) == four[4].rho - four[1].rho

\* Each of the three gaps differs from a third of the range by less than 15.
GapsNearMean(four) ==
  \A g \in 1..3 :
    Abs(3 * (four[g + 1].rho - four[g].rho) - RangeOf(four)) < 3 * DELTA_THRESHOLD

\* The bit pattern x that selects the combination.
BitPattern(q) == 2 ^ (q[1] - 1) + 2 ^ (q[2] - 1) + 2 ^ (q[3] - 1) + 2 ^ (q[4] - 1)

Qualifies(cluster) == Len(cluster) >= 4 /\ Len(cluster) <= MaxSubsetBits

\* C6 as stated: the axis a cluster of 4 to 32 members yields is its accepted
\* combination of largest range, and among accepted combinations of that range
\* the one enumerated first (smallest bit pattern).
C6_WidestFirstFound ==
  pc = "done" =>
    \E f \in AxisSources :
      \A k \in DOMAIN f :
        LET cluster == lineClusters[f[k]]
        IN /\ Qualifies(cluster)
           /\ \E q \in Combinations(cluster) :
                /\ possiblePuzzleLineClusters[k] = LinesOf(cluster, q)
                /\ GapsNearMean(LinesOf(cluster, q))
                /\ \A o \in Combinations(cluster) :
                     GapsNearMean(LinesOf(cluster, o)) =>
                       \/ RangeOf(LinesOf(cluster, o)) < RangeOf(LinesOf(cluster, q))
                       \/ /\ RangeOf(LinesOf(cluster, o)) = RangeOf(LinesOf(cluster, q))
                          /\ BitPattern(o) >= BitPattern(q)

\* C6, amended: the axis a cluster of 4 to 32 members yields is its accepted
\* combination of largest range, and among accepted combinations of that range
\* the one enumerated last (largest bit pattern); the cluster yields an axis
\* exactly when one of its accepted combinations has a range >= 0.
C6_WidestLastFound ==
  pc = "done" =>
    \E f \in AxisSources :
      /\ \A k \in DOMAIN f :
           LET cluster == lineClusters[f[k]]
           IN /\ Qualifies(cluster)
              /\ \E q \in Combinations(cluster) :
                   /\ possiblePuzzleLineClusters[k] = LinesOf(cluster, q)
                   /\ GapsNearMean(LinesOf(cluster, q))
                   /\ \A o \in Combinations(cluster) :
                        GapsNearMean(LinesOf(cluster, o)) =>
                          \/ RangeOf(LinesOf(cluster, o)) < RangeOf(LinesOf(cluster, q))
                          \/ /\ RangeOf(LinesOf(cluster, o)) = RangeOf(LinesOf(cluster, q))
                             /\ BitPattern(o) <= BitPattern(q)
      /\ \A i \in 1..Len(lineClusters) :
           (/\ Qualifies(lineClusters[i])
            /\ \E o \in Combinations(lineClusters[i]) :
                 /\ GapsNearMean(LinesOf(lineClusters[i], o))
                 /\ RangeOf(LinesOf(lineClusters[i], o)) >= 0)
             => \E k \in DOMAIN f : f[k] = i

\* An axis kept from a cluster in which an earlier combination is accepted with
\* the same range but other lines.
C6_Witness ==
  /\ pc = "done"
  /\ Len(lineClusters) = 1
  /\ Len(possiblePuzzleLineClusters) = 1
  /\ \E o \in Combinations(lineClusters[1]) :
       /\ GapsNearMean(LinesOf(lineClusters[1], o))
       /\ RangeOf(LinesOf(lineClusters[1], o)) = RangeOf(possiblePuzzleLineClusters[1])
       /\ LinesOf(lineClusters[1], o) # possiblePuzzleLineClusters[1]

\* C7: every emitted axis is 4 lines of one cluster of 4 to 32 members, in
\* ascending |rho| order, with each gap less than 15 from a third of the range;
\* clusters of fewer than 4 or more than 32 members, and 4-line clusters with a
\* gap more than 15 from the mean gap, yield none; no cluster yields two.
C7_AxesAreEvenlySpaced ==
  pc = "done" =>
    \E f \in AxisSources :
      /\ \A k \in DOMAIN f :
           LET cluster == lineClusters[f[k]]
               axis == possiblePuzzleLineClusters[k]
           IN /\ Qualifies(cluster)
              /\ Len(axis) = 4
              /\ \E q \in Combinations(cluster) : axis = LinesOf(cluster, q)
              /\ \A g \in 1..3 : Abs(axis[g].rho) <= Abs(axis[g + 1].rho)
              /\ GapsNearMean(axis)
      /\ \A i \in 1..Len(lineClusters) :
           (\/ ~Qualifies(lineClusters[i])
            \/ /\ Len(lineClusters[i]) = 4
               /\ \E g \in 1..3 :
                    Abs(3 * (lineClusters[i][g + 1].rho - lineClusters[i][g].rho)
                          - RangeOf(lineClusters[i])) > 3 * DELTA_THRESHOLD)
             => \A k \in DOMAIN f : f[k] # i

\* Two clusters searched: an oversized one that yields nothing, then one that
\* yields an axis.
C7_Witness ==
  /\ pc = "done"
  /\ Len(lineClusters) = 2
  /\ Len(lineClusters[1]) > MaxSubsetBits
  /\ Len(possiblePuzzleLineClusters) = 1

-----------------------------------------------------------------------------
(* Claims about FindPuzzles, checked under SpecPairs *)

\* C8: in every puzzle candidate the first axis's theta (of its line 0) has a
\* cosine >= that of the second axis's, the two thetas are within pi/12 of a
\* right angle, and the two axes are candidate axes i < j, whichever of the two
\* comes first.
C8_MoreHorizontalFirst ==
  pc = "done" =>
    \A k \in 1..Len(puzzleLines) :
      LET first == puzzleLines[k][1]
          second == puzzleLines[k][2]
      IN /\ Cos(first[1].theta) >= Cos(second[1].theta)
         /\ Abs(M_PI_2 - DifferenceTheta(first[1].theta, second[1].theta)) < DELTA_THETA
         /\ \E i \in 1..Len(possiblePuzzleLineClusters) :
              \E j \in (i + 1)..Len(possiblePuzzleLineClusters) :
                {first, second} = {possiblePuzzleLineClusters[i], possiblePuzzleLineClusters[j]}

\* A candidate whose first axis is the one created later.
C8_Witness ==
  /\ pc = "done"
  /\ Len(possiblePuzzleLineClusters) = 2
  /\ Len(puzzleLines) = 1
  /\ puzzleLines[1][1] = possiblePuzzleLineClusters[2]
  /\ puzzleLines[1][1] # puzzleLines[1][2]

-----------------------------------------------------------------------------
(* Claims about CachedPuzzleSolver, checked under SpecCache *)

\* The inputs C9 names: wrong length, a digit above 9, a grid Solvable
\* rejects, fewer than 21 non-zero digits, or a grid the solver fails on.
Invalid(input) ==
  \/ Len(input) # 81
  \/ \E i \in 1..Len(input) : input[i] > 9
  \/ ~Solvable(DigitsToGame(input, 0))
  \/ NonZeroDigits(input) < 21
  \/ SolveGame(DigitsToGame(input, 0)) = Unsolved

\* C9: a Solve call on an invalid or unsolvable input returns false, leaves
\* the caller's solution vector, solvedPuzzles and lastUsedSolution as they
\* were, and reads no element past the end of the digit vector.
C9_InvalidSolveTouchesNothing ==
  [][(call' = "Solve" /\ Invalid(digits'))
       => /\ ~crashed'
          /\ ~oobRead'
          /\ ~returned'
          /\ solution' = solution
          /\ solvedPuzzles' = solvedPuzzles
          /\ lastUsedSolution' = lastUsedSolution]_vars

\* C10: GetLastUsedSolution returns false while no Solve has returned true,
\* and otherwise true with the solution of the most recent Solve that
\* returned true; a successful Solve returns the solution the first solve of
\* that puzzle returned, and the cache holds one entry per solved puzzle.
C10_LastUsedSolution ==
  /\ (call = "GetLastUsedSolution")
       => /\ returned = (lastSolved # <<>>)
          /\ returned => solution = lastSolved
  /\ (call = "Solve" /\ returned /\ ~crashed) => solution = firstSolutions[digits]
  /\ DOMAIN solvedPuzzles = DOMAIN firstSolutions

\* GetLastUsedSolution answers after three puzzles were solved and the latest
\* Solve call failed, with the solution of a puzzle solved before another.
C10_Witness ==
  /\ call = "GetLastUsedSolution"
  /\ returned
  /\ DOMAIN solvedPuzzles = {PuzzleA, PuzzleB, PuzzleC}
  /\ digits = StuckPuzzle
  /\ lastUsedSolution = <<PuzzleC>>
  /\ solution = Relabelled(FullGrid)

====
